---- MODULE Spec2Model ----
(***************************************************************************)
(* systemd-directories: the live (standalone) queries over the five        *)
(* *_DIRECTORY environment variables and the SystemdDirs snapshot.         *)
(*                                                                         *)
(* Strings are sequences of one-character strings.  Option<T> is a         *)
(* sequence of length 0 (None) or 1 (Some).  The repository holds two      *)
(* implementations of the live queries: the one in lib.rs and the one in   *)
(* standalone.rs; the variable impl says which of them the build uses.     *)
(***************************************************************************)
EXTENDS Integers, Sequences, FiniteSets, TLC

VARIABLES
    impl,       \* "lib": src/lib.rs, "standalone": src/standalone.rs + src/systemd_dirs.rs
    env,        \* the process environment: variable name -> Option<String> or NotUnicode
    snaps,      \* the SystemdDirs values constructed so far
    live,       \* the live query just made, if the last operation was one
    ctor,       \* a SystemdDirs::new() in progress (reads of the five variables)
    nmut,       \* number of set_var/remove_var calls so far
    snapEnv,    \* history: per snapshot, the environment each field was read from
    during,     \* history: the environments that existed during the last call of new()
    joined,     \* history: the directories test_set joined into a value, and the variable
    prev,       \* history: what the live query before the last set_var/remove_var saw in that variable
    acc,        \* the snapshot accessor just called, if the last operation was one
    hist        \* history: per snapshot, its constructor and the variables read for it

vars == <<impl, env, snaps, live, ctor, nmut, snapEnv, during, joined, prev,
          acc, hist>>

----------------------------------------------------------------------------
(* Bounds *)

MaxLen == 5          \* longest variable value in SpecValues
MaxMutations == 1    \* set_var/remove_var calls per behaviour of Spec
MaxSnaps == 2        \* SystemdDirs values per behaviour of Spec
MaxRaces == 2        \* set_var/remove_var calls of the other thread in SpecConc
MaxCalls == 1        \* calls of SystemdDirs::new() per behaviour of SpecConc

Chars == {"a", "/", ":"}

Strings(n) == UNION {[1..k -> Chars] : k \in 0..n}

\* the values set_var writes in Spec: the empty value, one directory, two
SetValues == {<<>>, <<"/">>, <<"a", ":", "/">>}

----------------------------------------------------------------------------
(* Option<T> *)

None == <<>>
Some(x) == <<x>>

----------------------------------------------------------------------------
(* The five categories and their variables *)

Categories == {"runtime", "state", "cache", "logs", "config"}

Keys == {"RUNTIME_DIRECTORY", "STATE_DIRECTORY", "CACHE_DIRECTORY",
         "LOGS_DIRECTORY", "CONFIGURATION_DIRECTORY"}

Impls == {"lib", "standalone"}

----------------------------------------------------------------------------
(* std: env::var, str::split, Result::unwrap_or_default *)

\* a variable whose value is not valid Unicode
NotUnicode == <<"not", "unicode">>

\* env::var decoding such a value lossily
env_var_lossy(e, key) == IF e[key] = NotUnicode THEN Some(<<"a">>) ELSE e[key]

\* env::var(key): Ok(value) is Some(value); Err(NotPresent) and
\* Err(NotUnicode) are None, as no caller looks at the error
env_var(e, key) == IF e[key] = NotUnicode THEN None ELSE e[key]

unwrap_or_default(r) == IF r = None THEN <<>> ELSE r[1]

\* the path separator given as the pattern
Delimiter_slash == "/"

\* the pattern given to str::split
Delimiter == ":"

\* a split that takes a colon after a backslash as part of the path
FirstColon_escaped(s) ==
    LET ends == {i \in 1..Len(s) :
                    s[i] = Delimiter /\ (i = 1 \/ s[i - 1] # "\\")}
    IN  IF ends = {} THEN 0 ELSE CHOOSE i \in ends : \A j \in ends : i <= j

\* index of the first delimiter of s, 0 when there is none
FirstColon(s) ==
    IF \E i \in 1..Len(s) : s[i] = Delimiter
    THEN CHOOSE i \in 1..Len(s) :
             s[i] = Delimiter /\ \A j \in 1..(i - 1) : s[j] # Delimiter
    ELSE 0

RECURSIVE split(_)
\* str::split(':'): every segment, the empty ones too; "" gives [""]
split(s) ==
    LET i == FirstColon(s)
    IN  IF i = 0 THEN <<s>>
        ELSE <<SubSeq(s, 1, i - 1)>> \o split(SubSeq(s, i + 1, Len(s)))

\* Iterator::next
next(it) == IF Len(it) = 0 THEN None ELSE Some(it[1])

----------------------------------------------------------------------------
(* src/standalone.rs *)

from_env_key(e, env_key) == unwrap_or_default(env_var(e, env_key))

\* the filter without its negation
iter_inverted(paths) == SelectSeq(split(paths), LAMBDA p : p = <<>>)

iter(paths) == SelectSeq(split(paths), LAMBDA p : p # <<>>)

\* From<ColonSeparatedPaths> for Vec<PathBuf>
VecFrom(paths) == iter(paths)

\* the first segment, without the filter of iter
OptionFrom_unfiltered(paths) == next(split(paths))

\* From<ColonSeparatedPaths> for Option<PathBuf>
OptionFrom(paths) == next(iter(paths))

----------------------------------------------------------------------------
(* src/lib.rs *)

\* unwrap_or_default before the split instead of after it
lib_dirs_default_first(e, key) == split(unwrap_or_default(env_var(e, key)))

lib_dirs(e, key) ==
    IF env_var(e, key) = None THEN <<>> ELSE split(env_var(e, key)[1])

\* slice::first().cloned()
\* a primary that takes the last path of the list
first_last(v) == IF Len(v) = 0 THEN None ELSE Some(v[Len(v)])

first(v) == IF Len(v) = 0 THEN None ELSE Some(v[1])

----------------------------------------------------------------------------
(* The live queries, as built from impl *)

runtime_dirs(i, e) ==
    IF i = "lib" THEN lib_dirs(e, "RUNTIME_DIRECTORY")
    ELSE VecFrom(from_env_key(e, "RUNTIME_DIRECTORY"))

runtime_dir(i, e) ==
    IF i = "lib" THEN first(runtime_dirs(i, e))
    ELSE OptionFrom(from_env_key(e, "RUNTIME_DIRECTORY"))

state_dirs(i, e) ==
    IF i = "lib" THEN lib_dirs(e, "STATE_DIRECTORY")
    ELSE VecFrom(from_env_key(e, "STATE_DIRECTORY"))

state_dir(i, e) ==
    IF i = "lib" THEN first(state_dirs(i, e))
    ELSE OptionFrom(from_env_key(e, "STATE_DIRECTORY"))

\* cache_dirs reading the variable of the state category
cache_dirs_state_key(i, e) ==
    IF i = "lib" THEN lib_dirs(e, "STATE_DIRECTORY")
    ELSE VecFrom(from_env_key(e, "STATE_DIRECTORY"))

cache_dirs(i, e) ==
    IF i = "lib" THEN lib_dirs(e, "CACHE_DIRECTORY")
    ELSE VecFrom(from_env_key(e, "CACHE_DIRECTORY"))

cache_dir(i, e) ==
    IF i = "lib" THEN first(cache_dirs(i, e))
    ELSE OptionFrom(from_env_key(e, "CACHE_DIRECTORY"))

logs_dirs(i, e) ==
    IF i = "lib" THEN lib_dirs(e, "LOGS_DIRECTORY")
    ELSE VecFrom(from_env_key(e, "LOGS_DIRECTORY"))

logs_dir(i, e) ==
    IF i = "lib" THEN first(logs_dirs(i, e))
    ELSE OptionFrom(from_env_key(e, "LOGS_DIRECTORY"))

config_dirs(i, e) ==
    IF i = "lib" THEN lib_dirs(e, "CONFIGURATION_DIRECTORY")
    ELSE VecFrom(from_env_key(e, "CONFIGURATION_DIRECTORY"))

config_dir(i, e) ==
    IF i = "lib" THEN first(config_dirs(i, e))
    ELSE OptionFrom(from_env_key(e, "CONFIGURATION_DIRECTORY"))

\* the list query of category c
list_for(i, e, c) ==
    CASE c = "runtime" -> runtime_dirs(i, e)
      [] c = "state"   -> state_dirs(i, e)
      [] c = "cache"   -> cache_dirs(i, e)
      [] c = "logs"    -> logs_dirs(i, e)
      [] c = "config"  -> config_dirs(i, e)

\* the primary query of category c
primary_for(i, e, c) ==
    CASE c = "runtime" -> runtime_dir(i, e)
      [] c = "state"   -> state_dir(i, e)
      [] c = "cache"   -> cache_dir(i, e)
      [] c = "logs"    -> logs_dir(i, e)
      [] c = "config"  -> config_dir(i, e)

\* the variable the queries of category c read
KeyOf(c) ==
    CASE c = "runtime" -> "RUNTIME_DIRECTORY"
      [] c = "state"   -> "STATE_DIRECTORY"
      [] c = "cache"   -> "CACHE_DIRECTORY"
      [] c = "logs"    -> "LOGS_DIRECTORY"
      [] c = "config"  -> "CONFIGURATION_DIRECTORY"

----------------------------------------------------------------------------
(* SystemdDirs: src/systemd_dirs.rs, src/lib.rs *)

\* the fields of the struct expression of SystemdDirs::new(), in its order
ReadOrder == <<"runtime", "state", "cache", "logs", "config">>

\* cache_dirs initialised with state_dirs()
Initialiser_copy_paste(n, i, e) == list_for(i, e, ReadOrder[IF n = 3 THEN 2 ELSE n])

\* the n-th field initialiser of the struct expression: runtime_dirs(), ...
Initialiser(n, i, e) == list_for(i, e, ReadOrder[n])

\* logs_dirs and config_dirs initialised with each other's query
SystemdDirs_new_swapped(i, e) ==
    [runtime_dirs |-> Initialiser(1, i, e),
     state_dirs   |-> Initialiser(2, i, e),
     cache_dirs   |-> Initialiser(3, i, e),
     logs_dirs    |-> Initialiser(5, i, e),
     config_dirs  |-> Initialiser(4, i, e)]

\* SystemdDirs::new(), the five reads in the order of the struct expression
SystemdDirs_new(i, e) ==
    [runtime_dirs |-> Initialiser(1, i, e),
     state_dirs   |-> Initialiser(2, i, e),
     cache_dirs   |-> Initialiser(3, i, e),
     logs_dirs    |-> Initialiser(4, i, e),
     config_dirs  |-> Initialiser(5, i, e)]

\* the variables the n-th field initialiser reads: one env::var call
InitialiserReads(n) == <<KeyOf(ReadOrder[n])>>

\* the variables one call of SystemdDirs::new() reads, in order
NewReads ==
    InitialiserReads(1) \o InitialiserReads(2) \o InitialiserReads(3)
        \o InitialiserReads(4) \o InitialiserReads(5)

\* SystemdDirs::default() with the five fields empty
SystemdDirs_default_derived(i, e) ==
    [runtime_dirs |-> <<>>, state_dirs |-> <<>>, cache_dirs |-> <<>>,
     logs_dirs |-> <<>>, config_dirs |-> <<>>]

\* <SystemdDirs as Default>::default()
SystemdDirs_default(i, e) == SystemdDirs_new(i, e)

\* an accessor that calls env::var for its category
AccessorReads_reread(c) == <<KeyOf(c)>>

\* the variables an accessor of category c reads: it only walks its field
AccessorReads(c) == <<>>

as_paths(dirs) == dirs

\* the field of category c
field(self, c) ==
    CASE c = "runtime" -> self.runtime_dirs
      [] c = "state"   -> self.state_dirs
      [] c = "cache"   -> self.cache_dirs
      [] c = "logs"    -> self.logs_dirs
      [] c = "config"  -> self.config_dirs

\* an accessor that queries the environment again
list_reread(self, c) == list_for(impl, env, c)

\* SystemdDirs::runtime_dirs(&self) and its four siblings
list(self, c) == as_paths(field(self, c))

\* logs_dir reading self.config_dirs
primary_copy_paste(self, c) ==
    next(as_paths(field(self, IF c = "logs" THEN "config" ELSE c)))

\* SystemdDirs::runtime_dir(&self) and its four siblings
primary(self, c) == next(as_paths(field(self, c)))

----------------------------------------------------------------------------
(* State *)

NoCall == [op |-> "none", cat |-> "none", ret |-> <<>>, seen |-> None]

Idle == [pc |-> 0, got |-> <<>>, seen |-> <<>>]

AllUnset == [k \in Keys |-> None]

NoJoin == [key |-> "none", dirs |-> <<>>]

NoPrev == [key |-> "none", seen |-> None]

NoAcc == [snap |-> 0, op |-> "none", cat |-> "none", ret |-> <<>>]

\* what the last live query of the variable key saw in it, if only live
\* queries and mutations of that variable came since
Earlier(key) ==
    IF live.op # "none" /\ KeyOf(live.cat) = key
    THEN [key |-> key, seen |-> live.seen]
    ELSE IF prev.key = key THEN prev ELSE NoPrev

\* the earlier query stays on record for a query of the same variable
Kept(c) == IF prev.key = KeyOf(c) THEN prev ELSE NoPrev

\* every variable set to one directory, as by a unit with all five settings
AllSet == [k \in Keys |-> Some(<<"a">>)]

\* the environment the process starts with
StartEnvs == {AllUnset, AllSet}

Init ==
    /\ impl \in Impls
    /\ env \in StartEnvs
    /\ snaps = <<>>
    /\ live = NoCall
    /\ ctor = Idle
    /\ nmut = 0
    /\ snapEnv = <<>>
    /\ during = {}
    /\ joined = NoJoin
    /\ prev = NoPrev
    /\ acc = NoAcc
    /\ hist = <<>>

\* env::set_var(key, value)
SetVar(key, value) ==
    /\ env' = [env EXCEPT ![key] = Some(value)]
    /\ nmut' = nmut + 1
    /\ live' = NoCall
    /\ prev' = Earlier(key)
    /\ during' = IF ctor.pc = 0 THEN during ELSE during \cup {env'}
    /\ UNCHANGED <<impl, snaps, ctor, snapEnv, joined, acc, hist>>

\* env::remove_var(key)
RemoveVar(key) ==
    /\ env' = [env EXCEPT ![key] = None]
    /\ nmut' = nmut + 1
    /\ live' = NoCall
    /\ prev' = Earlier(key)
    /\ during' = IF ctor.pc = 0 THEN during ELSE during \cup {env'}
    /\ UNCHANGED <<impl, snaps, ctor, snapEnv, joined, acc, hist>>

\* a live list query that answers from what an earlier call saw
LiveList_cached(c) ==
    /\ live' = [op |-> "list", cat |-> c,
                ret |-> IF prev.key = KeyOf(c)
                        THEN list_for(impl, [env EXCEPT ![KeyOf(c)] = prev.seen], c)
                        ELSE list_for(impl, env, c),
                seen |-> env[KeyOf(c)]]
    /\ prev' = Kept(c)
    /\ acc' = NoAcc
    /\ UNCHANGED <<impl, env, snaps, ctor, nmut, snapEnv, during, joined, hist>>

\* a call of runtime_dirs(), state_dirs(), ...
LiveList(c) ==
    /\ live' = [op |-> "list", cat |-> c, ret |-> list_for(impl, env, c),
                seen |-> env[KeyOf(c)]]
    /\ prev' = Kept(c)
    /\ acc' = NoAcc
    /\ UNCHANGED <<impl, env, snaps, ctor, nmut, snapEnv, during, joined, hist>>

\* a live primary query that stores the default value in an unset variable
LivePrimary_sets_default(c) ==
    /\ live' = [op |-> "primary", cat |-> c, ret |-> primary_for(impl, env, c),
                seen |-> env[KeyOf(c)]]
    /\ env' = [env EXCEPT ![KeyOf(c)] = IF @ = None THEN Some(<<>>) ELSE @]
    /\ prev' = Kept(c)
    /\ acc' = NoAcc
    /\ UNCHANGED <<impl, snaps, ctor, nmut, snapEnv, during, joined, hist>>

\* a call of runtime_dir(), state_dir(), ...
LivePrimary(c) ==
    /\ live' = [op |-> "primary", cat |-> c, ret |-> primary_for(impl, env, c),
                seen |-> env[KeyOf(c)]]
    /\ prev' = Kept(c)
    /\ acc' = NoAcc
    /\ UNCHANGED <<impl, env, snaps, ctor, nmut, snapEnv, during, joined, hist>>

\* a constructor whose values all share the storage of the newest one
New_shared ==
    /\ ctor.pc = 0
    /\ snaps' = [n \in 1..(Len(snaps) + 1) |-> SystemdDirs_new(impl, env)]
    /\ snapEnv' = Append(snapEnv, [c \in Categories |-> env])
    /\ live' = NoCall
    /\ during' = {env}
    /\ prev' = NoPrev
    /\ acc' = NoAcc
    /\ hist' = Append(hist, [by |-> "new", reads |-> NewReads])
    /\ UNCHANGED <<impl, env, ctor, nmut, joined>>

\* a call of SystemdDirs::new() with nothing running between its reads
New ==
    /\ ctor.pc = 0
    /\ snaps' = Append(snaps, SystemdDirs_new(impl, env))
    /\ snapEnv' = Append(snapEnv, [c \in Categories |-> env])
    /\ live' = NoCall
    /\ during' = {env}
    /\ prev' = NoPrev
    /\ acc' = NoAcc
    /\ hist' = Append(hist, [by |-> "new", reads |-> NewReads])
    /\ UNCHANGED <<impl, env, ctor, nmut, joined>>

Next ==
    \/ /\ nmut < MaxMutations
       /\ \E key \in Keys, value \in SetValues : SetVar(key, value)
    \/ /\ nmut < MaxMutations
       /\ \E key \in Keys : RemoveVar(key)
    \/ \E c \in Categories : LiveList(c)
    \/ \E c \in Categories : LivePrimary(c)
    \/ /\ Len(snaps) < MaxSnaps
       /\ New

\* One thread: every operation runs to its end before the next one starts.
Spec == Init /\ [][Next]_vars

----------------------------------------------------------------------------
(* SpecValues: one variable holds any value of up to MaxLen characters (or  *)
(* is unset), and the queries and the constructor are applied to it.        *)

\* let dirs = SystemdDirs::new(), the one snapshot a test takes of a value
TestNew ==
    /\ snaps = <<>>
    /\ New

InitValues ==
    /\ impl \in Impls
    /\ env \in {[AllUnset EXCEPT ![key] = r] :
                    key \in Keys, r \in {None} \cup {Some(v) : v \in Strings(MaxLen)}}
    /\ snaps = <<>>
    /\ live = NoCall
    /\ ctor = Idle
    /\ nmut = 0
    /\ snapEnv = <<>>
    /\ during = {}
    /\ joined = NoJoin
    /\ prev = NoPrev
    /\ acc = NoAcc
    /\ hist = <<>>

NextValues ==
    \/ \E c \in Categories : LiveList(c)
    \/ \E c \in Categories : LivePrimary(c)
    \/ TestNew

SpecValues == InitValues /\ [][NextValues]_vars

----------------------------------------------------------------------------
(* SpecConc: SystemdDirs::new() as its five reads, in the order of the      *)
(* struct expression, while another thread calls set_var and remove_var.    *)

\* the call of SystemdDirs::new()
NewBegin ==
    /\ ctor.pc = 0
    /\ ctor' = [pc |-> 1, got |-> <<>>, seen |-> <<>>]
    /\ during' = {env}
    /\ UNCHANGED <<impl, env, snaps, live, nmut, snapEnv, joined, prev, acc, hist>>

\* the next field initialiser of the struct expression; the fifth one returns
NewRead ==
    /\ ctor.pc \in 1..5
    /\ LET got == Append(ctor.got, Initialiser(ctor.pc, impl, env))
           seen == Append(ctor.seen, env)
       IN  IF ctor.pc < 5
           THEN /\ ctor' = [pc |-> ctor.pc + 1, got |-> got, seen |-> seen]
                /\ UNCHANGED <<snaps, snapEnv, hist>>
           ELSE /\ ctor' = Idle
                /\ snaps' = Append(snaps,
                       [runtime_dirs |-> got[1], state_dirs |-> got[2],
                        cache_dirs |-> got[3], logs_dirs |-> got[4],
                        config_dirs |-> got[5]])
                /\ snapEnv' = Append(snapEnv,
                       [k \in Categories |->
                           seen[CHOOSE n \in 1..5 : ReadOrder[n] = k]])
                /\ hist' = Append(hist, [by |-> "new", reads |-> NewReads])
    /\ UNCHANGED <<impl, env, live, nmut, during, joined, prev, acc>>

\* the values the other thread writes
RaceValues == {<<"/">>}

NextConc ==
    \/ /\ nmut < MaxRaces
       /\ \E key \in Keys, value \in RaceValues : SetVar(key, value)
    \/ /\ nmut < MaxRaces
       /\ \E key \in Keys : RemoveVar(key)
    \/ /\ Len(snaps) < MaxCalls
       /\ NewBegin
    \/ NewRead

SpecConc == Init /\ [][NextConc]_vars

----------------------------------------------------------------------------
(* SpecJoin: the test helper test_set: it joins a list of directories with  *)
(* ":" and sets a variable to the result; queries and snapshots follow.     *)

MaxDirs == 3         \* longest list of directories joined into one value

HasColon(s) == \E i \in 1..Len(s) : s[i] = ":"

\* the non-empty colon-free paths of up to n characters
Paths(n) == {p \in Strings(n) : p # <<>> /\ ~HasColon(p)}

\* [&str]::join(":") of a non-empty slice
join(dirs) ==
    LET upto[k \in 1..Len(dirs)] ==
            IF k = 1 THEN dirs[1] ELSE upto[k - 1] \o <<":">> \o dirs[k]
    IN  upto[Len(dirs)]

\* the non-empty lists of such paths whose joined value fits in MaxLen
DirLists ==
    {dirs \in UNION {[1..k -> Paths(MaxLen - 2 * (k - 1))] : k \in 1..MaxDirs} :
        Len(join(dirs)) <= MaxLen}

\* env::set_var(env_key, dirs.join(":")), the first statement of test_set,
\* which every test function calls once
TestSet(env_key, dirs) ==
    /\ env' = [env EXCEPT ![env_key] = Some(join(dirs))]
    /\ nmut' = nmut + 1
    /\ live' = NoCall
    /\ joined' = [key |-> env_key, dirs |-> dirs]
    /\ prev' = Earlier(env_key)
    /\ UNCHANGED <<impl, snaps, ctor, snapEnv, during, acc, hist>>

NextJoin ==
    \/ /\ joined = NoJoin
       /\ snaps = <<>>
       /\ live = NoCall
       /\ \E env_key \in Keys, dirs \in DirLists : TestSet(env_key, dirs)
    \/ \E c \in Categories : LiveList(c)
    \/ \E c \in Categories : LivePrimary(c)
    \/ TestNew

SpecJoin == Init /\ [][NextJoin]_vars

----------------------------------------------------------------------------
(* SpecOps: every operation of the library, applied to a start environment *)
(* in which one variable is unset, holds a directory or is not valid        *)
(* Unicode.                                                                 *)

OpsValues == {None, NotUnicode, Some(<<"a">>)}

InitOps ==
    /\ impl \in Impls
    /\ env \in {[e EXCEPT ![key] = r] :
                    e \in StartEnvs, key \in Keys, r \in OpsValues}
    /\ snaps = <<>>
    /\ live = NoCall
    /\ ctor = Idle
    /\ nmut = 0
    /\ snapEnv = <<>>
    /\ during = {}
    /\ joined = NoJoin
    /\ prev = NoPrev
    /\ acc = NoAcc
    /\ hist = <<>>

\* a call of SystemdDirs::default()
Default ==
    /\ ctor.pc = 0
    /\ snaps' = Append(snaps, SystemdDirs_default(impl, env))
    /\ snapEnv' = Append(snapEnv, [c \in Categories |-> env])
    /\ live' = NoCall
    /\ during' = {env}
    /\ prev' = NoPrev
    /\ acc' = NoAcc
    /\ hist' = Append(hist, [by |-> "default", reads |-> NewReads])
    /\ UNCHANGED <<impl, env, ctor, nmut, joined>>

\* a call of runtime_dirs(&self), state_dirs(&self), ... on snapshot n
SnapList(n, c) ==
    /\ acc' = [snap |-> n, op |-> "list", cat |-> c, ret |-> list(snaps[n], c)]
    /\ live' = NoCall
    /\ hist' = [hist EXCEPT ![n].reads = @ \o AccessorReads(c)]
    /\ UNCHANGED <<impl, env, snaps, ctor, nmut, snapEnv, during, joined, prev>>

\* a call of runtime_dir(&self), state_dir(&self), ... on snapshot n
SnapPrimary(n, c) ==
    /\ acc' = [snap |-> n, op |-> "primary", cat |-> c,
               ret |-> primary(snaps[n], c)]
    /\ live' = NoCall
    /\ hist' = [hist EXCEPT ![n].reads = @ \o AccessorReads(c)]
    /\ UNCHANGED <<impl, env, snaps, ctor, nmut, snapEnv, during, joined, prev>>

NextOps ==
    \/ \E c \in Categories : LiveList(c)
    \/ \E c \in Categories : LivePrimary(c)
    \/ /\ Len(snaps) < MaxSnaps
       /\ New
    \/ /\ Len(snaps) < MaxSnaps
       /\ Default
    \/ \E n \in 1..Len(snaps), c \in Categories : SnapList(n, c)
    \/ \E n \in 1..Len(snaps), c \in Categories : SnapPrimary(n, c)

SpecOps == InitOps /\ [][NextOps]_vars

----------------------------------------------------------------------------
(* SpecDelim: one variable holds any value of up to MaxDelimLen characters  *)
(* that other formats use to separate or to escape, and the live queries    *)
(* are applied to it.                                                       *)

MaxDelimLen == 3     \* longest variable value in SpecDelim

DelimChars == {":", "\\", "\"", " ", ";", ",", "/"}

DelimStrings == UNION {[1..k -> DelimChars] : k \in 0..MaxDelimLen}

InitDelim ==
    /\ impl \in Impls
    /\ env \in {[AllUnset EXCEPT ![key] = Some(v)] :
                    key \in Keys, v \in DelimStrings}
    /\ snaps = <<>>
    /\ live = NoCall
    /\ ctor = Idle
    /\ nmut = 0
    /\ snapEnv = <<>>
    /\ during = {}
    /\ joined = NoJoin
    /\ prev = NoPrev
    /\ acc = NoAcc
    /\ hist = <<>>

NextDelim ==
    \/ \E c \in Categories : LiveList(c)
    \/ \E c \in Categories : LivePrimary(c)

SpecDelim == InitDelim /\ [][NextDelim]_vars

----------------------------------------------------------------------------
(* Reference definitions used by the properties *)

\* the environment in which only the variable of category c is set, to r
OnlyVar(c, r) == [AllUnset EXCEPT ![KeyOf(c)] = r]

\* what the queries of category c compute from the value r of its variable
ListFrom(c, r) == list_for(impl, OnlyVar(c, r), c)
PrimaryFrom(c, r) == primary_for(impl, OnlyVar(c, r), c)

\* the positions where a non-empty maximal colon-free substring of s starts
SegStarts(s) == {i \in 1..Len(s) : s[i] # ":" /\ (i = 1 \/ s[i - 1] = ":")}

\* the position where the colon-free substring starting at i ends
SegEnd(s, i) ==
    CHOOSE j \in i..Len(s) :
        /\ \A k \in i..j : s[k] # ":"
        /\ (j = Len(s) \/ s[j + 1] = ":")

\* the non-empty maximal colon-free substrings of s, in order of appearance
NonEmptySegments(s) ==
    LET starts == SegStarts(s)
        nth(k) == CHOOSE i \in starts : Cardinality({j \in starts : j < i}) = k - 1
    IN  [k \in 1..Cardinality(starts) |-> SubSeq(s, nth(k), SegEnd(s, nth(k)))]

Snapshots == 1..Len(snaps)

\* the value the variable of category c held when snapshot n read it
HeldAt(n, c) == snapEnv[n][c][KeyOf(c)]

----------------------------------------------------------------------------
(* C1 *)

\* C1: snapshot isolation.  Whatever is done to the environment after a
\* snapshot was created, its list and primary accessors of every category
\* return what the queries compute from the value X the variable held at
\* creation; a live query returns what they compute from the value the
\* variable holds when it is called.
C1_SnapshotIsolation ==
    /\ \A n \in Snapshots, c \in Categories :
          /\ list(snaps[n], c) = ListFrom(c, HeldAt(n, c))
          /\ primary(snaps[n], c) = PrimaryFrom(c, HeldAt(n, c))
    /\ live.op = "list" => live.ret = ListFrom(live.cat, live.seen)
    /\ live.op = "primary" => live.ret = PrimaryFrom(live.cat, live.seen)

\* a snapshot taken at X = "a", the variable now Y = "/", a live list query
\* made after the mutation: the snapshot says [a], the live query [/]
C1_Witness ==
    \E n \in Snapshots, c \in Categories :
        /\ HeldAt(n, c) = Some(<<"a">>)
        /\ env[KeyOf(c)] = Some(<<"/">>)
        /\ live.op = "list" /\ live.cat = c /\ live.seen = env[KeyOf(c)]
        /\ list(snaps[n], c) = << <<"a">> >>
        /\ primary(snaps[n], c) = Some(<<"a">>)
        /\ live.ret = << <<"/">> >>

----------------------------------------------------------------------------
(* C2 *)

\* C2: the live list query of every category returns exactly the non-empty
\* maximal colon-free substrings of the value, in order of appearance.
C2_EmptySegmentsDropped ==
    (live.op = "list" /\ live.seen # None) =>
        live.ret = NonEmptySegments(live.seen[1])

----------------------------------------------------------------------------
(* C3 *)

\* C3: with the variable set to "", the live list query returns an empty
\* sequence, the live primary query None, and a snapshot created in that
\* state an empty list and None for that category.
C3_EmptyString ==
    /\ (live.op = "list" /\ live.seen = Some(<<>>)) => live.ret = <<>>
    /\ (live.op = "primary" /\ live.seen = Some(<<>>)) => live.ret = None
    /\ \A n \in Snapshots, c \in Categories :
          HeldAt(n, c) = Some(<<>>) =>
              list(snaps[n], c) = <<>> /\ primary(snaps[n], c) = None

----------------------------------------------------------------------------
(* C4 *)

\* C4: once the variable of a category is unset, the live list query returns
\* an empty list and the live primary query None, and a snapshot created
\* afterwards has an empty list and None for that category.
C4_Unset ==
    /\ (live.op = "list" /\ live.seen = None) => live.ret = <<>>
    /\ (live.op = "primary" /\ live.seen = None) => live.ret = None
    /\ \A n \in Snapshots, c \in Categories :
          HeldAt(n, c) = None =>
              list(snaps[n], c) = <<>> /\ primary(snaps[n], c) = None

\* the variable was set when the first snapshot was taken, was removed, and
\* a second snapshot and a live query followed
C4_Witness ==
    \E c \in Categories :
        /\ Len(snaps) = 2
        /\ HeldAt(1, c) # None /\ list(snaps[1], c) # <<>>
        /\ HeldAt(2, c) = None /\ list(snaps[2], c) = <<>>
        /\ env[KeyOf(c)] = None
        /\ live.op = "primary" /\ live.cat = c /\ live.seen = None
        /\ live.ret = None

----------------------------------------------------------------------------
(* C5 *)

\* C5: join/split round trip.  With the variable set to dirs joined with
\* ":", the live list query returns dirs, the live primary query dirs[0],
\* and a snapshot created then returns the same list and primary.
C5_JoinSplitRoundTrip ==
    \A c \in Categories :
        (joined.key = KeyOf(c) /\ env[KeyOf(c)] = Some(join(joined.dirs))) =>
            /\ (live.op = "list" /\ live.cat = c /\ live.seen = env[KeyOf(c)]) =>
                   live.ret = joined.dirs
            /\ (live.op = "primary" /\ live.cat = c /\ live.seen = env[KeyOf(c)]) =>
                   live.ret = Some(joined.dirs[1])
            /\ \A n \in Snapshots :
                  HeldAt(n, c) = env[KeyOf(c)] =>
                      /\ list(snaps[n], c) = joined.dirs
                      /\ primary(snaps[n], c) = Some(joined.dirs[1])

\* the directories [a, /, /] joined to "a:/:/": the live list query
\* returned [a, /, /] and a snapshot holds the same list with primary a
C5_Witness ==
    \E n \in Snapshots, c \in Categories :
        /\ joined = [key |-> KeyOf(c), dirs |-> << <<"a">>, <<"/">>, <<"/">> >>]
        /\ env[KeyOf(c)] = Some(<<"a", ":", "/", ":", "/">>)
        /\ live.op = "list" /\ live.cat = c /\ live.seen = env[KeyOf(c)]
        /\ HeldAt(n, c) = env[KeyOf(c)]
        /\ live.ret = << <<"a">>, <<"/">>, <<"/">> >>
        /\ list(snaps[n], c) = live.ret
        /\ primary(snaps[n], c) = Some(<<"a">>)

----------------------------------------------------------------------------
(* C6 *)

\* C6: live primary/list consistency.  A live primary query that follows a
\* live list query of the same category, the variable unchanged in between,
\* is present exactly when the list was non-empty, and then equals its
\* first element.
C6_LivePrimaryListConsistency ==
    [][(/\ live.op = "list"
        /\ live'.op = "primary"
        /\ live'.cat = live.cat
        /\ live.seen = env[KeyOf(live.cat)]
        /\ env' = env)
       => /\ (live'.ret # None) <=> (live.ret # <<>>)
          /\ live'.ret # None => live'.ret[1] = live.ret[1]]_vars

\* the live primary query answered for a value with a leading, a doubled and
\* a trailing colon
C6_Witness ==
    /\ live.op = "primary"
    /\ live.seen = Some(<<":", "a", ":", ":", "/">>)
    /\ live.ret # None

\* the live primary query answered None for a value made of colons only
C6_WitnessAbsent ==
    /\ live.op = "primary"
    /\ live.seen = Some(<<":", ":">>)
    /\ impl = "standalone"
    /\ live.ret = None

----------------------------------------------------------------------------
(* C7 *)

\* C7: snapshot primary/list consistency.  For every snapshot and category,
\* primary is present exactly when list is non-empty, and then equals its
\* first element.
C7_SnapshotPrimaryListConsistency ==
    \A n \in Snapshots, c \in Categories :
        /\ (primary(snaps[n], c) # None) <=> (list(snaps[n], c) # <<>>)
        /\ primary(snaps[n], c) # None =>
               primary(snaps[n], c)[1] = list(snaps[n], c)[1]

\* two snapshots around a mutation: the first has a list and a primary for a
\* category, the second has neither, and still has both for another category
C7_Witness ==
    \E c, d \in Categories :
        /\ c # d
        /\ Len(snaps) = 2
        /\ list(snaps[1], c) # <<>> /\ primary(snaps[1], c) # None
        /\ list(snaps[2], c) = <<>> /\ primary(snaps[2], c) = None
        /\ list(snaps[2], d) # <<>> /\ primary(snaps[2], d) # None

----------------------------------------------------------------------------
(* C8 *)

\* the last snapshot constructed, once its constructor has returned
LastSnap == snaps[Len(snaps)]
Returned == ctor.pc = 0 /\ Len(snaps) > 0

\* C8: the five lists stored by SystemdDirs::new are the five live lists of
\* one single environment state that existed during the call, also when
\* another thread sets or unsets variables between the five reads.
C8_OneInstant ==
    Returned => \E e \in during : LastSnap = SystemdDirs_new(impl, e)

\* C8 (amended): each stored list is the live list of its category in the
\* environment state of its own read, a state that existed during the call;
\* the five lists are those of one single state when no variable was set or
\* unset during the call.
C8_OneInstantPerCategory ==
    Returned =>
        /\ \A c \in Categories :
              /\ snapEnv[Len(snaps)][c] \in during
              /\ list(LastSnap, c) = list_for(impl, snapEnv[Len(snaps)][c], c)
        /\ Cardinality(during) = 1 =>
              \A e \in during : LastSnap = SystemdDirs_new(impl, e)

\* a constructor returned after the environment changed between its reads
C8_Witness ==
    /\ Returned
    /\ Cardinality(during) = 3
    /\ list(LastSnap, "runtime") = <<>>
    /\ list(LastSnap, "config") # <<>>
    /\ snapEnv[Len(snaps)]["runtime"] # snapEnv[Len(snaps)]["config"]

----------------------------------------------------------------------------
(* C9 *)

\* C9: snapshot equals live at creation.  The snapshot that a call of
\* SystemdDirs::new() adds returns from list and primary of every category
\* what the live list and primary queries return in the state of the call.
C9_SnapshotEqualsLive ==
    [][Len(snaps') = Len(snaps) + 1 =>
          \A c \in Categories :
              /\ list(snaps'[Len(snaps')], c) = list_for(impl, env, c)
              /\ primary(snaps'[Len(snaps')], c) = primary_for(impl, env, c)]_vars

\* a snapshot of an environment with two variables set to different values
C9_Witness ==
    \E c, d \in Categories :
        /\ Len(snaps) = 1
        /\ snapEnv[1][c] = env
        /\ env[KeyOf(c)] = Some(<<"a">>) /\ env[KeyOf(d)] = Some(<<"/">>)
        /\ list(snaps[1], c) = << <<"a">> >> /\ list(snaps[1], d) = << <<"/">> >>
        /\ primary(snaps[1], c) = Some(<<"a">>)

----------------------------------------------------------------------------
(* C10 *)

\* C10: for every value V without a colon, with the variable set to V the
\* live list query returns [V] and the live primary query V.
C10_SingleValue ==
    (live.seen # None /\ ~HasColon(live.seen[1])) =>
        /\ live.op = "list" => live.ret = <<live.seen[1]>>
        /\ live.op = "primary" => live.ret = Some(live.seen[1])

\* C10 (amended): for every non-empty value V without a colon, with the
\* variable set to V the live list query returns [V] and the live primary
\* query V.
C10_SingleNonEmptyValue ==
    (live.seen # None /\ live.seen[1] # <<>> /\ ~HasColon(live.seen[1])) =>
        /\ live.op = "list" => live.ret = <<live.seen[1]>>
        /\ live.op = "primary" => live.ret = Some(live.seen[1])

\* the live list query answered [a//a] for the value "a//a"
C10_Witness ==
    /\ live.op = "list"
    /\ live.seen = Some(<<"a", "/", "/", "a">>)
    /\ live.ret = << <<"a", "/", "/", "a">> >>

----------------------------------------------------------------------------
(* C11 *)

\* C11: live semantics without caching.  A live list or primary query
\* returns what the query computes from the environment of its call; when an
\* earlier query of the same variable saw another value before the variable
\* was set or unset, the result is the one of the latest value.
C11_LiveNoCaching ==
    /\ live.op = "list" => live.ret = list_for(impl, env, live.cat)
    /\ live.op = "primary" => live.ret = primary_for(impl, env, live.cat)
    /\ (live.op = "list" /\ prev.key = KeyOf(live.cat)) =>
           live.ret = ListFrom(live.cat, env[prev.key])
    /\ (live.op = "primary" /\ prev.key = KeyOf(live.cat)) =>
           live.ret = PrimaryFrom(live.cat, env[prev.key])

\* a live list query saw "a", the variable was then set to "/", and the
\* next live list query of that category answered [/]
C11_Witness ==
    \E c \in Categories :
        /\ prev = [key |-> KeyOf(c), seen |-> Some(<<"a">>)]
        /\ env[KeyOf(c)] = Some(<<"/">>)
        /\ live.op = "list" /\ live.cat = c
        /\ live.ret = << <<"/">> >>

----------------------------------------------------------------------------
(* C12 *)

\* C12: independence across categories.  Whatever a step does to the
\* variables of other categories, the live list and primary of a category
\* whose own variable keeps its value stay the same, and a snapshot created
\* then has for that category the list and primary of every earlier
\* snapshot that read the same value.
C12_CategoryIndependence ==
    [][\A c \in Categories :
          /\ env'[KeyOf(c)] = env[KeyOf(c)] =>
                 /\ list_for(impl, env', c) = list_for(impl, env, c)
                 /\ primary_for(impl, env', c) = primary_for(impl, env, c)
          /\ Len(snaps') = Len(snaps) + 1 =>
                 \A n \in Snapshots :
                     HeldAt(n, c) = env[KeyOf(c)] =>
                         /\ list(snaps'[Len(snaps')], c) = list(snaps[n], c)
                         /\ primary(snaps'[Len(snaps')], c) = primary(snaps[n], c)]_vars

\* the variable of category c was changed between two snapshots, the one of
\* category d was not: both snapshots and a live query made afterwards give
\* [a] for d, and the snapshots differ for c
C12_Witness ==
    \E c, d \in Categories :
        /\ c # d
        /\ Len(snaps) = 2
        /\ HeldAt(1, c) # HeldAt(2, c)
        /\ list(snaps[1], c) # list(snaps[2], c)
        /\ HeldAt(1, d) = Some(<<"a">>) /\ HeldAt(2, d) = Some(<<"a">>)
        /\ list(snaps[1], d) = << <<"a">> >> /\ list(snaps[2], d) = << <<"a">> >>
        /\ live.op = "list" /\ live.cat = d /\ live.ret = << <<"a">> >>

----------------------------------------------------------------------------
(* C13 *)

\* C13: snapshots are independent of each other.  Creating a snapshot gives
\* it the result of the environment of its creation and leaves the list and
\* the primary of every category of every earlier snapshot unchanged.
C13_SnapshotsIndependent ==
    [][Len(snaps') = Len(snaps) + 1 =>
          \A c \in Categories :
              /\ list(snaps'[Len(snaps')], c) = ListFrom(c, env[KeyOf(c)])
              /\ primary(snaps'[Len(snaps')], c) = PrimaryFrom(c, env[KeyOf(c)])
              /\ \A n \in Snapshots :
                     /\ list(snaps'[n], c) = list(snaps[n], c)
                     /\ primary(snaps'[n], c) = primary(snaps[n], c)]_vars

\* RUNTIME_DIRECTORY was unset between two snapshots: the second has [] and
\* no primary for runtime, the first still has its list and its primary
C13_Witness ==
    /\ Len(snaps) = 2
    /\ HeldAt(1, "runtime") = Some(<<"a">>)
    /\ HeldAt(2, "runtime") = None
    /\ env["RUNTIME_DIRECTORY"] = None
    /\ list(snaps[2], "runtime") = <<>> /\ primary(snaps[2], "runtime") = None
    /\ list(snaps[1], "runtime") = << <<"a">> >>
    /\ primary(snaps[1], "runtime") = Some(<<"a">>)

----------------------------------------------------------------------------
(* C14 *)

\* C14: the environment reads made for a snapshot, by its constructor and
\* by every accessor call since, are exactly five: one of each of the five
\* variables.
C14_FiveReads ==
    \A n \in Snapshots :
        /\ Len(hist[n].reads) = 5
        /\ \A key \in Keys :
              Cardinality({i \in 1..Len(hist[n].reads) : hist[n].reads[i] = key}) = 1

\* the primary accessor of the first of two snapshots was just called and
\* returned a directory
C14_Witness ==
    /\ Len(snaps) = 2
    /\ acc.snap = 1 /\ acc.op = "primary" /\ acc.ret = Some(<<"a">>)
    /\ hist[1].reads = NewReads

----------------------------------------------------------------------------
(* C15 *)

\* a path: a string over the characters of the model
IsPath(p) == DOMAIN p = 1..Len(p) /\ \A i \in 1..Len(p) : p[i] \in Chars

\* a (possibly empty) list of paths
IsPathList(v) == DOMAIN v = 1..Len(v) /\ \A i \in 1..Len(v) : IsPath(v[i])

\* an absent or a present path
IsOptionalPath(r) == r = None \/ (Len(r) = 1 /\ IsPath(r[1]))

\* C15: no operation fails.  Every live and snapshot list query returns a
\* list of paths and every primary query an absent or present path, in
\* every environment; a variable whose value is not valid Unicode gives what
\* an unset variable gives: the empty list and no primary.
C15_NeverFails ==
    /\ live.op = "list" => IsPathList(live.ret)
    /\ live.op = "primary" => IsOptionalPath(live.ret)
    /\ acc.op = "list" => IsPathList(acc.ret)
    /\ acc.op = "primary" => IsOptionalPath(acc.ret)
    /\ (live.op = "list" /\ live.seen = NotUnicode) => live.ret = <<>>
    /\ (live.op = "primary" /\ live.seen = NotUnicode) => live.ret = None
    /\ (acc.op = "list" /\ HeldAt(acc.snap, acc.cat) = NotUnicode) => acc.ret = <<>>
    /\ (acc.op = "primary" /\ HeldAt(acc.snap, acc.cat) = NotUnicode) =>
           acc.ret = None

\* the list accessor of a snapshot taken while the variable was not valid
\* Unicode was just called and returned the empty list, as it did for a
\* category whose variable was unset
C15_Witness ==
    \E c, d \in Categories :
        /\ acc.op = "list" /\ acc.cat = c /\ acc.ret = <<>>
        /\ HeldAt(acc.snap, c) = NotUnicode
        /\ HeldAt(acc.snap, d) = None
        /\ list(snaps[acc.snap], d) = <<>>

\* the live primary query of a variable that is not valid Unicode returned
\* no path
C15_WitnessLive ==
    /\ live.op = "primary" /\ live.seen = NotUnicode /\ live.ret = None

----------------------------------------------------------------------------
(* C16 *)

\* C16: no operation of the library mutates the environment.  Across every
\* live list query, live primary query, snapshot creation and snapshot
\* accessor call, each of the five variables is set, unset or undecodable
\* after the call as before it, with the same value.
C16_NoMutation ==
    [][(\/ live'.op # "none"
        \/ acc'.op # "none"
        \/ Len(snaps') = Len(snaps) + 1)
       => \A key \in Keys : env'[key] = env[key]]_vars

\* two snapshots and an accessor call later, the environment is the one both
\* snapshots were created in: one variable unset, one not valid Unicode or
\* holding a directory
C16_Witness ==
    \E c, d \in Categories :
        /\ Len(snaps) = 2
        /\ acc.op = "list" /\ acc.snap = 2
        /\ env[KeyOf(c)] = None
        /\ env[KeyOf(d)] \in {NotUnicode, Some(<<"a">>)}
        /\ snapEnv[1][c] = env /\ snapEnv[2][d] = env

----------------------------------------------------------------------------
(* C17 *)

\* C17: default construction is equivalent to new().  A snapshot made by
\* SystemdDirs::default() holds what SystemdDirs::new() gives in the state of
\* its creation, and has the list and the primary of every category of every
\* snapshot that new() made in the same state.
C17_DefaultEqualsNew ==
    \A n \in Snapshots :
        hist[n].by = "default" =>
            /\ snaps[n] = SystemdDirs_new(impl, snapEnv[n]["runtime"])
            /\ \A m \in Snapshots :
                   (hist[m].by = "new" /\ snapEnv[m] = snapEnv[n]) =>
                       \A c \in Categories :
                           /\ list(snaps[n], c) = list(snaps[m], c)
                           /\ primary(snaps[n], c) = primary(snaps[m], c)

\* a snapshot made by new() and one made by default() in the same state,
\* with a directory for one category and none for another
C17_Witness ==
    \E c, d \in Categories :
        /\ Len(snaps) = 2
        /\ hist[1].by = "new" /\ hist[2].by = "default"
        /\ snapEnv[1] = snapEnv[2]
        /\ list(snaps[2], c) = << <<"a">> >> /\ primary(snaps[2], c) = Some(<<"a">>)
        /\ list(snaps[2], d) = <<>> /\ primary(snaps[2], d) = None

----------------------------------------------------------------------------
(* C18 *)

\* the number of colons in s
Colons(s) == Cardinality({i \in 1..Len(s) : s[i] = ":"})

\* s without its colons
WithoutColons(s) == SelectSeq(s, LAMBDA ch : ch # ":")

\* the paths of v, one after the other
Flatten(v) ==
    LET upto[k \in 0..Len(v)] == IF k = 0 THEN <<>> ELSE upto[k - 1] \o v[k]
    IN  upto[Len(v)]

\* C18: the only delimiter is the colon and nothing escapes it.  No path
\* returned by the live list query contains a colon, also not one that
\* follows a backslash or stands between quotes; the paths are the value
\* with its colons taken out, cut at colons only, so a value with n colons
\* gives at most n + 1 paths and a non-empty value without colon gives
\* itself as the single path.
C18_ColonOnly ==
    (live.op = "list" /\ live.seen # None) =>
        LET v == live.seen[1]
        IN  /\ \A i \in 1..Len(live.ret) : ~HasColon(live.ret[i])
            /\ Flatten(live.ret) = WithoutColons(v)
            /\ Len(live.ret) <= Colons(v) + 1
            /\ (v # <<>> /\ Colons(v) = 0) => live.ret = <<v>>

\* the value \:/ gave the paths \ and /, cut at the colon after the backslash
C18_Witness ==
    /\ live.op = "list"
    /\ live.seen = Some(<<"\\", ":", "/">>)
    /\ live.ret = << <<"\\">>, <<"/">> >>

\* the value "; ," without colon gave itself as the single path
C18_WitnessOthers ==
    /\ live.op = "list"
    /\ live.seen = Some(<<";", " ", ",">>)
    /\ live.ret = << <<";", " ", ",">> >>

----------------------------------------------------------------------------
(* C19 *)

\* an unset variable, or a non-empty value with no leading, no trailing and
\* no doubled colon
Clean(r) ==
    \/ r = None
    \/ /\ r # None
       /\ r[1] # <<>>
       /\ r[1][1] # ":" /\ r[1][Len(r[1])] # ":"
       /\ \A i \in 1..(Len(r[1]) - 1) : ~(r[1][i] = ":" /\ r[1][i + 1] = ":")

\* C19: on an unset variable and on a non-empty value with no leading,
\* trailing or doubled colon, the live queries of lib.rs and those of
\* standalone.rs return the same list and the same primary: what the one in
\* use returned is what each of the two computes.
C19_ImplementationsAgree ==
    Clean(live.seen) =>
        \A i \in Impls :
            /\ live.op = "list" => live.ret = list_for(i, env, live.cat)
            /\ live.op = "primary" => live.ret = primary_for(i, env, live.cat)

\* the live primary query of lib.rs returned a for the value "a:/", as the
\* one of standalone.rs does
C19_Witness ==
    /\ impl = "lib"
    /\ live.op = "primary"
    /\ live.seen = Some(<<"a", ":", "/">>)
    /\ live.ret = Some(<<"a">>)
    /\ primary_for("standalone", env, live.cat) = live.ret

\* on the value "a::/", which has a doubled colon, the two list queries differ
C19_WitnessUnclean ==
    /\ live.op = "list"
    /\ live.seen = Some(<<"a", ":", ":", "/">>)
    /\ list_for("lib", env, live.cat) # list_for("standalone", env, live.cat)

----------------------------------------------------------------------------
(* C20 *)

\* a path that is neither empty nor holds a colon
ProperPath(p) == p # <<>> /\ ~HasColon(p)

\* C20: in every state reached by set, unset and snapshot-creation
\* operations, no path stored in a snapshot and no path returned by a live
\* query is the empty path or contains a colon.
C20_NoEmptyPathNoColon ==
    /\ \A n \in Snapshots, c \in Categories :
          \A i \in 1..Len(list(snaps[n], c)) : ProperPath(list(snaps[n], c)[i])
    /\ live.op = "list" => \A i \in 1..Len(live.ret) : ProperPath(live.ret[i])
    /\ (live.op = "primary" /\ live.ret # None) => ProperPath(live.ret[1])

====
